---- MODULE Spec2Model ----
(***************************************************************************)
(* ContextualNewsEnv (src/Contexual Bandits/ContexualEnvs.py): a           *)
(* contextual bandit environment with a seeded generator, a context        *)
(* sampler and a logistic reward oracle.                                   *)
(*                                                                         *)
(* Number representation.                                                  *)
(*  - A context coordinate is an integer number of 1/30 (XUnitsPerOne):    *)
(*    a tenth is 3 units and (age - 40)/15 is (age - 40) * 2 units.        *)
(*  - theta is held in tenths, so a logit theta[a] . x is an integer       *)
(*    number of 1/300 (ZUnitsPerOne).                                      *)
(*  - A float in [0, 1] is a grid code in 0 .. 2 * PScale: the even code   *)
(*    2j is exactly j / PScale, the odd code 2j + 1 is a value strictly    *)
(*    between j / PScale and (j + 1) / PScale.  Code 0 is exactly 0.0 and  *)
(*    code 2 * PScale is exactly 1.0.  The order of codes is the order of  *)
(*    the floats.                                                          *)
(*  - The numpy generator (PCG64) is held as the stream its seed selects,   *)
(*    the number of 64-bit words consumed from it, and its buffered 32-bit *)
(*    half.  What the stream holds at a position is not computed: the      *)
(*    variates a call draws are inputs of the call, any value of their     *)
(*    range, and two generators in the same state draw the same variates.  *)
(*  - theta[a] @ x is summed in exact arithmetic; float64 rounds each      *)
(*    product, which shows only where the exact sum is 0 (the one logit    *)
(*    whose logistic value is on the grid): the side on which the float64  *)
(*    value falls is then an input of the call, fixed where it has been    *)
(*    worked out.                                                          *)
(***************************************************************************)
EXTENDS Integers, Sequences, FiniteSets

VARIABLES phase,     \* "new" | "ready" | "failed": where the construction stands
          seedArg,   \* the seed argument given to the constructor
          initErr,   \* the exception construction raised ("" when none)
          envA,      \* the environment under test
          envB,      \* a second environment built with the same seed, driven alike
          envR,      \* a third one, driven through the same calls minus click_prob
          outA,      \* what the last call returned on envA
          outB,      \* ... on envB
          outR,      \* what the last call returned on envR (nothing for click_prob)
          lastCall,  \* the last call: its name and arguments
          pre,       \* envA as it was when the last call began
          lastDraw,  \* the variates envA's generator yielded in the last call
          ncalls,    \* number of calls made so far
          nprob      \* number of click_prob calls among them

vars == <<phase, seedArg, initErr, envA, envB, envR, outA, outB, outR,
          lastCall, pre, lastDraw, ncalls, nprob>>

(* ------------------------------ bounds --------------------------------- *)
MaxCalls == 2
MaxSeed == 1
\* words the six normals of one sample_context take beyond one each
MaxExtraWords == 2
\* 32-bit halves rng.choice rejects before the one it uses
MaxRejects == 1

(* --------------------------- program constants ------------------------- *)
AgeLo == 18
AgeHi == 80
AgeCenter == 40
AgeScale == 15
NumNoise == 5
DefaultSeed == 0
\* rng.normal(40, 12)
AgeMean == 40
AgeStd == 12

XUnitsPerOne == 2 * AgeScale
Tenth == XUnitsPerOne \div 10

feature_names == <<"likes_politics", "sports_fan", "techie", "mobile_user",
                   "morning_reader", "age_z">>
arm_names == <<"Politics", "Sports", "Tech", "Lifestyle">>

\* self.theta, in tenths (rows = arms, columns = features)
ThetaLiteral ==
  << << 16,  2,  1,  2,  7,  4 >>,
     <<  1, 18,  1,  7,  2, -1 >>,
     <<  0,  1, 19, -1, -2, -2 >>,
     <<  3,  2,  2, 10,  8,  0 >> >>

Segments == <<"politics", "sports", "tech", "on_the_go", "morning_person">>

\* the segment's mean vector, in tenths
SegmentCore(seg) ==
  IF seg = "politics" THEN <<16, 2, 2, 3, 9>>
  ELSE IF seg = "sports" THEN <<2, 18, 2, 10, 3>>
  ELSE IF seg = "tech" THEN <<2, 2, 19, 3, 2>>
  ELSE IF seg = "on_the_go" THEN <<4, 9, 5, 18, 7>>
  ELSE <<8, 3, 2, 6, 19>>

(* ------------------------- float64 logistic ---------------------------- *)
ZUnitsPerOne == 10 * XUnitsPerOne

\* least logit (in 1/300) from which 1.0 + exp(-z) rounds to 1.0 in float64:
\* exp(-z) <= 2^-53, that is z >= 53 ln 2 = 36.7368...
SaturateZ == 11022
\* greatest logit (in 1/300) at which exp(-z) overflows float64 to inf:
\* -z > ln(max float64) = 709.7827...
OverflowZ == -212935

\* LogitThresholds[j] is the least logit (in 1/300) whose logistic value is
\* at least j / PScale: ceil(300 * ln(j / (PScale - j)))
LogitThresholds == <<-583, -329, -153, 0, 154, 330, 584>>

PScale == Len(LogitThresholds) + 1

\* a float64 logit: z the sum of the products in exact arithmetic (in 1/300),
\* s the side of z on which the float64 sum of the rounded products leaves
\* the logistic value (-1 below, 0 on it, 1 above)
Float(z, s) == [z |-> z, s |-> s]

\* the only logit on the 1/300 grid whose logistic value is on the
\* probability grid is 0, sigma(0) = 1/2, and the float64 value is exactly
\* 0.5 only when the rounded products leave no residue
ExactHalf(zf) == zf.z = 0 /\ zf.s = 0

\* np.exp(-z) is inf
ExpOverflows(z) == z <= OverflowZ

\* the same in float32: exp(-z) <= 2^-24, that is z >= 24 ln 2 = 16.6355...
OnePlusExpIsOne_float32(z) == z >= 4991

\* 1.0 + np.exp(-z) is exactly 1.0
OnePlusExpIsOne(z) == z >= SaturateZ

\* _sigmoid(z) = 1.0 / (1.0 + np.exp(-z)), as a grid code
_sigmoid(zf) ==
  IF ExpOverflows(zf.z) THEN 0
  ELSE IF OnePlusExpIsOne(zf.z) THEN 2 * PScale
  ELSE IF ExactHalf(zf) THEN PScale
  ELSE IF zf.z = 0 THEN PScale + zf.s
  ELSE 2 * Cardinality({j \in 1..Len(LogitThresholds) : zf.z >= LogitThresholds[j]}) + 1

(* ----------------------------- generator ------------------------------- *)
\* np.random.default_rng(seed): a negative seed is refused by SeedSequence
SeedAccepted(seed) == seed >= 0

\* the state of a generator on stream st before any draw
FreshGenerator(st) == [stream |-> st, pos |-> 0, has32 |-> FALSE, bufpos |-> 0]

\* default_rng() without the seed: the stream comes from the system's entropy
\* (streams -1, -2 stand for two readings of it)
default_rng_unseeded(seed) == {FreshGenerator(-1), FreshGenerator(-2)}

\* the generator states default_rng(seed) may start in: the seed's stream
default_rng(seed) == {FreshGenerator(seed)}

\* n 64-bit words taken from the bit generator
next_uint64(g, n) == [g EXCEPT !.pos = @ + n]

\* a 32-bit half taken: the buffered one when there is one, else the low half
\* of a new word, whose high half is buffered
next_uint32(g) ==
  IF g.has32 THEN [g EXCEPT !.has32 = FALSE, !.bufpos = 0]
  ELSE [g EXCEPT !.pos = @ + 1, !.has32 = TRUE, !.bufpos = g.pos]

\* n 32-bit halves taken one after the other
RECURSIVE next_uint32s(_, _)
next_uint32s(g, n) == IF n = 0 THEN g ELSE next_uint32s(next_uint32(g), n - 1)

\* the variates a call draws
NoDraw == [seg |-> 0, noise |-> <<>>, age |-> 0, extra |-> 0, rejects |-> 0,
           code |-> 0, below |-> FALSE]

\* sample_context's: rng.choice's index (1..5) and the 32-bit halves its
\* bounded sampler rejected before the one it used (a half equal to 0 is
\* rejected), rng.normal(0, 0.2, size=5) in 1/30, rng.normal(40, 12) in
\* years, and the words the six normals took beyond one each
SampleDraw(seg, noise, age, extra, rejects) ==
  [seg |-> seg, noise |-> noise, age |-> age, extra |-> extra,
   rejects |-> rejects, code |-> 0, below |-> FALSE]

\* click's: rng.random() as a grid code in 0 .. 2 * PScale - 1; for a value
\* strictly inside a grid cell, below says whether it lies below a
\* probability inside the same cell
UniformDraw(code, below) ==
  [seg |-> 0, noise |-> <<>>, age |-> 0, extra |-> 0, rejects |-> 0,
   code |-> code, below |-> below]

\* u < p, u a uniform draw and p a grid code
Less(u, p) == u.code < p \/ (u.code = p /\ u.code % 2 = 1 /\ u.below)

(* ----------------------------- environment ----------------------------- *)
\* an environment not yet constructed
NoEnv == [rng |-> FreshGenerator(0), d |-> 0, k |-> 0, theta |-> <<>>]

\* the object __init__ builds around generator state g
NewEnv(g) == [rng |-> g, d |-> Len(feature_names), k |-> Len(arm_names),
              theta |-> ThetaLiteral]

\* results of a call
NoOut == [kind |-> "none", x |-> <<>>, p |-> -1, r |-> -1]
Raised(e) == [kind |-> e, x |-> <<>>, p |-> -1, r |-> -1]
RetContext(x) == [kind |-> "context", x |-> x, p |-> -1, r |-> -1]
RetProb(p) == [kind |-> "prob", x |-> <<>>, p |-> p, r |-> -1]
RetReward(r, p) == [kind |-> "reward", x |-> <<>>, p |-> p, r |-> r]

\* the age left as drawn
Clip_none(v, lo, hi) == v

\* np.clip(v, lo, hi)
Clip(v, lo, hi) == IF v < lo THEN lo ELSE IF v > hi THEN hi ELSE v

\* _sample_age_z with age the value rng.normal(40, 12) yields, in years:
\* (clip(age, 18, 80) - 40) / 15, in 1/30
_sample_age_z(age) ==
  ((Clip(age, AgeLo, AgeHi) - AgeCenter) * XUnitsPerOne) \div AgeScale

\* sample_context drawing dr: one choice (a 32-bit half, after the rejected
\* ones), five noise normals, one age normal (a word each, and the extra ones)
sample_context(env, dr) ==
  LET core == SegmentCore(Segments[dr.seg])
      noised == [i \in 1..NumNoise |-> core[i] * Tenth + dr.noise[i]]
      age_z == _sample_age_z(dr.age)
      x == [i \in 1..env.d |-> IF i <= NumNoise THEN noised[i] ELSE age_z]
      g == next_uint64(next_uint32s(env.rng, 1 + dr.rejects),
                       NumNoise + 1 + dr.extra)
  IN [env |-> [env EXCEPT !.rng = g], out |-> RetContext(x)]

\* an arm argument: an integer index or a string label
ArmIndex(i) == [isName |-> FALSE, idx |-> i, name |-> ""]
ArmName(n) == [isName |-> TRUE, idx |-> 0, name |-> n]

\* self.theta[arm]: numpy accepts the integers -k .. k-1 (a negative index
\* counts from the end) and raises IndexError for anything else
RowIndexable(env, arm) ==
  /\ ~arm.isName
  /\ arm.idx >= -env.k
  /\ arm.idx < env.k

\* the rows taken in reverse order
RowOf_reversed(env, arm) == IF arm.idx >= 0 THEN env.k - arm.idx ELSE -arm.idx

\* the (1-based) row theta[arm] selects
RowOf(env, arm) == IF arm.idx >= 0 THEN arm.idx + 1 ELSE arm.idx + env.k + 1

RECURSIVE DotFrom(_, _, _)
DotFrom(row, x, i) ==
  IF i > Len(row) THEN 0 ELSE row[i] * x[i] + DotFrom(row, x, i + 1)

\* row @ x in exact arithmetic, in 1/300
Dot(row, x) == DotFrom(row, x, 1)

\* products that are not all zero and sum to zero in exact arithmetic
Cancels(row, x) ==
  /\ Len(x) = Len(row)
  /\ Dot(row, x) = 0
  /\ \E i \in 1..Len(row) : row[i] * x[i] # 0

\* cancelling products worked out in float64:
\* 0.7 * 4.0 + 0.4 * -7.0 = 2.8 - 2.8000000000000003 < 0
CancelBelow == <<0, 0, 0, 0, 4 * XUnitsPerOne, -7 * XUnitsPerOne>>
\* 0.7 * -4.0 + 0.4 * 7.0 = -2.8 + 2.8000000000000003 > 0
CancelAbove == <<0, 0, 0, 0, -4 * XUnitsPerOne, 7 * XUnitsPerOne>>
\* 1.6 * 1.0 + 0.2 * -8.0 = 1.6 - 1.6 = 0
CancelExact == <<XUnitsPerOne, -8 * XUnitsPerOne, 0, 0, 0, 0>>

\* the sides on which the float64 value of row @ x may fall: the products
\* are rounded, so a sum that cancels in exact arithmetic leaves the residue
\* the roundings leave, of either sign or none
Roundings(row, x) ==
  IF ~Cancels(row, x) THEN {0}
  ELSE IF row = ThetaLiteral[1] /\ x = CancelBelow THEN {-1}
  ELSE IF row = ThetaLiteral[1] /\ x = CancelAbove THEN {1}
  ELSE IF row = ThetaLiteral[1] /\ x = CancelExact THEN {0}
  ELSE {-1, 0, 1}

\* row @ x in float64, s one of Roundings(row, x)
matmul(row, x, s) == Float(Dot(row, x), s)

\* the product taken over the coordinates both vectors have (as zip would)
click_prob_truncating(env, arm, x, s) ==
  IF ~RowIndexable(env, arm) THEN Raised("IndexError")
  ELSE LET row == env.theta[RowOf(env, arm)]
           n == IF Len(x) < Len(row) THEN Len(x) ELSE Len(row)
       IN RetProb(_sigmoid(matmul(SubSeq(row, 1, n), SubSeq(x, 1, n), s)))

\* click_prob(arm, x) = float(_sigmoid(theta[arm] @ x)), the float64 product
\* rounding to side s
click_prob(env, arm, x, s) ==
  IF ~RowIndexable(env, arm) THEN Raised("IndexError")
  ELSE IF Len(x) # Len(env.theta[RowOf(env, arm)]) THEN Raised("ValueError")
  ELSE RetProb(_sigmoid(matmul(env.theta[RowOf(env, arm)], x, s)))

\* the sides the product of a scoring call may round to
RoundingsOf(env, arm, x) ==
  IF ~RowIndexable(env, arm) THEN {0}
  ELSE Roundings(env.theta[RowOf(env, arm)], x)

\* the comparison turned around: r = int(p < rng.random())
click_reversedCompare(env, arm, x, u, s) ==
  LET cp == click_prob(env, arm, x, s)
  IN IF cp.kind # "prob" THEN [env |-> env, out |-> cp]
     ELSE [env |-> [env EXCEPT !.rng = next_uint64(@, 1)],
           out |-> RetReward(IF u.code > cp.p \/ (u.code = cp.p /\ u.code % 2 = 1 /\ ~u.below)
                           THEN 1 ELSE 0, cp.p)]

\* the uniform drawn before the probability is computed
click_drawFirst(env, arm, x, u, s) ==
  LET drawn == [env EXCEPT !.rng = next_uint64(@, 1)]
      cp == click_prob(drawn, arm, x, s)
  IN IF cp.kind # "prob" THEN [env |-> drawn, out |-> cp]
     ELSE [env |-> drawn, out |-> RetReward(IF Less(u, cp.p) THEN 1 ELSE 0, cp.p)]

\* click(arm, x) drawing u: p = click_prob(arm, x); r = int(rng.random() < p)
click(env, arm, x, u, s) ==
  LET cp == click_prob(env, arm, x, s)
  IN IF cp.kind # "prob" THEN [env |-> env, out |-> cp]
     ELSE [env |-> [env EXCEPT !.rng = next_uint64(@, 1)],
           out |-> RetReward(IF Less(u, cp.p) THEN 1 ELSE 0, cp.p)]

\* click_prob drawing from the generator as click does
click_prob_call_drawing(env, arm, x, s) ==
  [env |-> [env EXCEPT !.rng = next_uint64(@, 1)], out |-> click_prob(env, arm, x, s)]

\* click_prob as a call: the environment is returned as it was
click_prob_call(env, arm, x, s) ==
  [env |-> env, out |-> click_prob(env, arm, x, s)]

(* ------------------------------- inputs -------------------------------- *)
NoSeed == [absent |-> TRUE, v |-> 0]
SeedOf(n) == [absent |-> FALSE, v |-> n]
\* the seed omitted (the default, 0, is used), a negative and a positive one
SeedInputs == {NoSeed, SeedOf(-MaxSeed), SeedOf(MaxSeed)}

\* another default: def __init__(self, seed=1)
InitSeed_defaultOne(arg) == IF arg.absent THEN DefaultSeed + 1 ELSE arg.v

\* def __init__(self, seed=0)
InitSeed(arg) == IF arg.absent THEN DefaultSeed ELSE arg.v

ArmInputs ==
  {ArmIndex(i) : i \in -(Len(arm_names) + 1)..Len(arm_names)}
  \cup {ArmName("Tech"), ArmName("Gossip")}

Ones(n, v) == [i \in 1..n |-> v]
Zero6 == Ones(6, 0)
\* 100.0 in the first coordinate
BigPos == [Zero6 EXCEPT ![1] = 100 * XUnitsPerOne]
\* -400.0 in the third coordinate
BigNeg == [Zero6 EXCEPT ![3] = -400 * XUnitsPerOne]
\* 10.0 in the third coordinate
Mid == [Zero6 EXCEPT ![3] = 10 * XUnitsPerOne]

\* vectors of the caller's own making: of length 6, 5 and 7
OwnContexts ==
  {Zero6, BigPos, BigNeg, Mid, CancelBelow,
   Ones(5, XUnitsPerOne), Ones(7, XUnitsPerOne)}

\* the arguments of a scoring call: every arm with the zero vector; every
\* arm index 0..3 with every vector of OwnContexts; Tech by index and by
\* name with the last sampled context
ScoringInputs(sampled) ==
  {<<arm, Zero6>> : arm \in ArmInputs}
  \cup {<<ArmIndex(i), x>> : i \in 0..(Len(arm_names) - 1), x \in OwnContexts}
  \cup {<<arm, sampled>> : arm \in {ArmIndex(2), ArmName("Tech")}}

\* the ziggurat's tail starts 3.654 standard deviations from the mean (in
\* thousandths): a normal further out is drawn by the tail sampler
ZigguratTail == 3654
InTail(dev, sd) == 1000 * (IF dev < 0 THEN -dev ELSE dev) > ZigguratTail * sd

\* the normals of a draw that come from the tail: noise of standard
\* deviation 0.2, an age of mean 40 and standard deviation 12
TailNormals(noise, age) ==
  Cardinality({i \in 1..Len(noise) : InTail(noise[i], 2 * Tenth)})
  + (IF InTail(age - AgeMean, AgeStd) THEN 1 ELSE 0)

\* a normal from the tail takes two words more at least
WordsFit(noise, age, extra) == extra >= 2 * TailNormals(noise, age)

\* variates the generator yields to sample_context: every segment; noise of
\* 0.2, -0.2, 1/30, 0, -13/30; an age below 18, inside, and above 80 (in the
\* tail); every count of extra words and rejected halves that fits them
NoiseDraws == {<<6, -6, 1, 0, -13>>}
AgeDraws == {5, 47, 93}
SampleDraws ==
  {SampleDraw(in[1], in[2], in[3], in[4], in[5]) :
     in \in {t \in (1..Len(Segments)) \X NoiseDraws \X AgeDraws
                      \X (0..MaxExtraWords) \X (0..MaxRejects) :
               WordsFit(t[2], t[3], t[4])}}

\* variates the generator yields to click: exactly 0.0, exactly 0.5, a value
\* just below 0.5 and not below a probability there, and a value in the last
\* cell below 1.0, on either side of a probability there
UniformDraws ==
  {UniformDraw(0, FALSE), UniformDraw(PScale, FALSE),
   UniformDraw(PScale - 1, FALSE),
   UniformDraw(2 * PScale - 1, FALSE), UniformDraw(2 * PScale - 1, TRUE)}

\* what a generator in state g yields when one in state gA yielded dr: the
\* same in the same state, anything of the range otherwise
DrawsFor(g, gA, dr, range) == IF g = gA THEN {dr} ELSE range

\* the uniforms a click may be given: none when it raises before it draws
UniformsOf(env, arm, x) ==
  IF click_prob(env, arm, x, 0).kind = "prob" THEN UniformDraws ELSE {NoDraw}

(* ------------------------------- actions ------------------------------- *)
NoCall == [op |-> "none", arm |-> ArmIndex(0), x |-> <<>>, rnd |-> 0]

Init ==
  /\ phase = "new"
  /\ seedArg = NoSeed
  /\ initErr = ""
  /\ envA = NoEnv /\ envB = NoEnv /\ envR = NoEnv
  /\ outA = NoOut /\ outB = NoOut /\ outR = NoOut
  /\ lastCall = NoCall
  /\ pre = NoEnv
  /\ lastDraw = NoDraw
  /\ ncalls = 0
  /\ nprob = 0

\* ContextualNewsEnv(seed) / ContextualNewsEnv(): the environments are built
\* with the same argument
Construct ==
  /\ phase = "new"
  /\ \E arg \in SeedInputs :
       /\ seedArg' = arg
       /\ IF SeedAccepted(InitSeed(arg))
          THEN /\ \E ga \in default_rng(InitSeed(arg)), gb \in default_rng(InitSeed(arg)) :
                    /\ envA' = NewEnv(ga)
                    /\ envB' = NewEnv(gb)
                    /\ envR' = NewEnv(ga)
                    /\ pre' = NewEnv(ga)
               /\ phase' = "ready"
               /\ initErr' = ""
          ELSE /\ phase' = "failed"
               /\ initErr' = "ValueError"
               /\ UNCHANGED <<envA, envB, envR, pre>>
  /\ UNCHANGED <<outA, outB, outR, lastCall, lastDraw, ncalls, nprob>>

\* the context the previous call returned, when it was sample_context
Sampled == IF outA.kind = "context" THEN outA.x ELSE Zero6

CallSampleContext ==
  /\ phase = "ready" /\ ncalls < MaxCalls
  /\ \E dA \in SampleDraws :
       \E dB \in DrawsFor(envB.rng, envA.rng, dA, SampleDraws),
          dR \in DrawsFor(envR.rng, envA.rng, dA, SampleDraws) :
         LET a == sample_context(envA, dA)
             b == sample_context(envB, dB)
             r == sample_context(envR, dR)
         IN /\ lastDraw' = dA
            /\ envA' = a.env /\ outA' = a.out
            /\ envB' = b.env /\ outB' = b.out
            /\ envR' = r.env /\ outR' = r.out
  /\ lastCall' = [op |-> "sample_context", arm |-> ArmIndex(0), x |-> <<>>,
                  rnd |-> 0]
  /\ pre' = envA
  /\ ncalls' = ncalls + 1
  /\ UNCHANGED <<phase, seedArg, initErr, nprob>>

CallClickProb ==
  /\ phase = "ready" /\ ncalls < MaxCalls
  /\ \E in \in ScoringInputs(Sampled) :
       \E s \in RoundingsOf(envA, in[1], in[2]) :
         LET arm == in[1]
             x == in[2]
             a == click_prob_call(envA, arm, x, s)
             b == click_prob_call(envB, arm, x, s)
         IN /\ lastCall' = [op |-> "click_prob", arm |-> arm, x |-> x, rnd |-> s]
            /\ envA' = a.env /\ outA' = a.out
            /\ envB' = b.env /\ outB' = b.out
  /\ pre' = envA
  /\ lastDraw' = NoDraw
  /\ ncalls' = ncalls + 1
  /\ nprob' = nprob + 1
  /\ outR' = NoOut
  /\ UNCHANGED <<phase, seedArg, initErr, envR>>

CallClick ==
  /\ phase = "ready" /\ ncalls < MaxCalls
  /\ \E in \in ScoringInputs(Sampled) :
       \E s \in RoundingsOf(envA, in[1], in[2]),
          uA \in UniformsOf(envA, in[1], in[2]) :
       \E uB \in DrawsFor(envB.rng, envA.rng, uA, UniformsOf(envB, in[1], in[2])),
          uR \in DrawsFor(envR.rng, envA.rng, uA, UniformsOf(envR, in[1], in[2])) :
         LET arm == in[1]
             x == in[2]
             a == click(envA, arm, x, uA, s)
             b == click(envB, arm, x, uB, s)
             r == click(envR, arm, x, uR, s)
         IN
         /\ lastCall' = [op |-> "click", arm |-> arm, x |-> x, rnd |-> s]
         /\ lastDraw' = uA
         /\ envA' = a.env /\ outA' = a.out
         /\ envB' = b.env /\ outB' = b.out
         /\ envR' = r.env /\ outR' = r.out
  /\ pre' = envA
  /\ ncalls' = ncalls + 1
  /\ UNCHANGED <<phase, seedArg, initErr, nprob>>

Next == Construct \/ CallSampleContext \/ CallClickProb \/ CallClick

Spec == Init /\ [][Next]_vars

(* ------------------------------- claims -------------------------------- *)
\* the spec's names for the exceptions the calls raise
InvalidArmError == "IndexError"
DimensionMismatchError == "ValueError"

IsScoringCall == lastCall.op \in {"click_prob", "click"}

\* the arm is one of the 4 arms: an index 0..3, or one of the 4 labels
InArmSet(arm) ==
  IF arm.isName THEN \E i \in 1..Len(arm_names) : arm_names[i] = arm.name
  ELSE arm.idx \in 0..(Len(arm_names) - 1)

\* the arm is given by its index 0..3
IsArmIndex(arm) == ~arm.isName /\ arm.idx \in 0..(Len(arm_names) - 1)

\* C1: two environments constructed with the same seed and driven through
\* the same calls with the same arguments return the same output at every
\* step.
C1_Determinism == phase = "ready" => outA = outB

C1_Witness ==
  /\ ncalls >= 2
  /\ lastCall.op = "click"
  /\ outA.kind = "reward"
  /\ outA = outB
  /\ ~seedArg.absent /\ seedArg.v > 0

\* C2: click_probability and draw_reward raise InvalidArmError for every arm
\* identifier outside the 4-element arm set (an index >= 4, a negative
\* index, an unknown label), and return no probability and no reward then.
\* Stated for well-formed (length-6) contexts, where no other error competes.
C2_InvalidArmRaises ==
  (IsScoringCall /\ ~InArmSet(lastCall.arm) /\ Len(lastCall.x) = 6)
    => (outA.kind = InvalidArmError /\ outA.p = -1 /\ outA.r = -1)

\* C3: click_probability and draw_reward raise DimensionMismatchError when
\* the context's length is not d = 6, for every arm given by a valid index.
C3_DimensionMismatchRaises ==
  (IsScoringCall /\ IsArmIndex(lastCall.arm) /\ Len(lastCall.x) # 6)
    => (outA.kind = DimensionMismatchError /\ outA.p = -1 /\ outA.r = -1)

C3_Witness ==
  /\ lastCall.op = "click_prob"
  /\ lastCall.arm = ArmIndex(2)
  /\ Len(lastCall.x) = 5
  /\ outA.kind = DimensionMismatchError

\* the Tech coefficient row (row 2 of the matrix, counting from 0), in tenths
TechRow == <<0, 1, 19, -1, -2, -2>>

\* C4 as claimed: click_probability(arm="Tech", x), x of length 6, succeeds
\* and returns the value computed from the Tech coefficient row.
C4_NameAccepted ==
  (lastCall.op = "click_prob" /\ lastCall.arm = ArmName("Tech")
     /\ Len(lastCall.x) = 6)
    => (/\ outA.kind = "prob"
        /\ outA.p = _sigmoid(matmul(TechRow, lastCall.x, lastCall.rnd)))

\* C4 as amended: the arm is supplied by its index.  click_probability(2, x),
\* x of length 6, succeeds and returns the value computed from the Tech
\* coefficient row, the same value in a second environment built with the
\* same seed; click_probability("Tech", x) raises.
C4_IndexAccepted ==
  /\ (lastCall.op = "click_prob" /\ lastCall.arm = ArmIndex(2)
        /\ Len(lastCall.x) = 6)
       => (/\ outA.kind = "prob"
           /\ outA.p = _sigmoid(matmul(TechRow, lastCall.x, lastCall.rnd))
           /\ outB = outA)
  /\ (lastCall.op = "click_prob" /\ lastCall.arm = ArmName("Tech"))
       => outA.kind = "IndexError"

\* the context passed is one sample_context returned, then Tech by index
C4_Witness ==
  /\ lastCall.op = "click_prob"
  /\ lastCall.arm = ArmIndex(2)
  /\ Len(lastCall.x) = 6
  /\ lastCall.x \notin OwnContexts
  /\ outA.kind = "prob"
  /\ outA.p = _sigmoid(matmul(TechRow, lastCall.x, lastCall.rnd))

\* the logit of the last scoring call that returned a probability, in 1/300
LastLogit == Dot(ThetaLiteral[RowOf(pre, lastCall.arm)], lastCall.x)

\* C5 as claimed: every probability click_probability returns is strictly
\* inside (0, 1): never exactly 0.0, never exactly 1.0.
C5_StrictlyInside ==
  (lastCall.op = "click_prob" /\ IsArmIndex(lastCall.arm) /\ outA.kind = "prob")
    => (0 < outA.p /\ outA.p < 2 * PScale)

\* C5 as amended: every probability click_probability returns (for a
\* context whose dot product does not overflow) lies in the
\* closed interval [0, 1]; it is strictly inside (0, 1) when the logit is in
\* [-709, 36], exactly 1.0 from 36.74 on and exactly 0.0 below -709.79.
C5_ClosedInterval ==
  (lastCall.op = "click_prob" /\ outA.kind = "prob")
    => /\ 0 <= outA.p /\ outA.p <= 2 * PScale
       /\ (-709 * ZUnitsPerOne <= LastLogit /\ LastLogit <= 36 * ZUnitsPerOne)
            => (0 < outA.p /\ outA.p < 2 * PScale)
       /\ (100 * LastLogit >= 3674 * ZUnitsPerOne) => outA.p = 2 * PScale
       /\ (100 * LastLogit <= -70979 * ZUnitsPerOne) => outA.p = 0

\* a context of large magnitude drives the probability to exactly 1.0
C5_Witness ==
  /\ lastCall.op = "click_prob"
  /\ lastCall.x = BigPos
  /\ outA.kind = "prob"
  /\ outA.p = 2 * PScale

\* C6: draw_reward(a, x) on a valid arm and a length-6 context returns
\* (reward, p) with p the value click_probability(a, x) gives, reward in
\* {0, 1}, and reward = 1 exactly when the one uniform u drawn in the call
\* is below p; the generator advances by that one draw.
C6_RewardConsistency ==
  /\ (lastCall.op = "click" /\ IsArmIndex(lastCall.arm) /\ Len(lastCall.x) = 6)
       => outA.kind = "reward"
  /\ (lastCall.op = "click" /\ outA.kind = "reward")
       => (/\ click_prob(pre, lastCall.arm, lastCall.x, lastCall.rnd).kind = "prob"
           /\ outA.p = click_prob(pre, lastCall.arm, lastCall.x, lastCall.rnd).p
           /\ outA.r \in {0, 1}
           /\ (outA.r = 1 <=> Less(lastDraw, outA.p))
           /\ envA.rng = next_uint64(pre.rng, 1))

\* a reward of 1 drawn after earlier calls have moved the generator
C6_Witness ==
  /\ lastCall.op = "click"
  /\ IsArmIndex(lastCall.arm)
  /\ outA.kind = "reward"
  /\ outA.r = 1
  /\ 0 < lastDraw.code
  /\ pre.rng.pos > 0
  /\ ncalls >= 2

\* C7: after any calls and for every seed, sample_context returns a vector of
\* length 6 whose 6th coordinate lies in [-22/15, 8/3], whatever age was
\* drawn.
C7_SchemaInvariant ==
  lastCall.op = "sample_context"
    => /\ outA.kind = "context"
       /\ Len(outA.x) = 6
       /\ 15 * outA.x[6] >= -22 * XUnitsPerOne
       /\ 3 * outA.x[6] <= 8 * XUnitsPerOne

\* an age above 80 was drawn, and the coordinate is 8/3
C7_Witness ==
  /\ lastCall.op = "sample_context"
  /\ ncalls >= 2
  /\ lastDraw.age > 80
  /\ Len(outA.x) = 6
  /\ 3 * outA.x[6] = 8 * XUnitsPerOne

\* C8: a click_probability call leaves the generator and the coefficient
\* matrix as they were, so sample_context and draw_reward return what they
\* return in an environment driven through the same calls without the
\* click_probability calls.
C8_ClickProbPure ==
  /\ lastCall.op = "click_prob" => envA = pre
  /\ phase = "ready" => envA.theta = ThetaLiteral
  /\ lastCall.op \in {"sample_context", "click"} => outA = outR

\* a reward drawn after click_probability calls were made
C8_Witness ==
  /\ nprob >= 1
  /\ lastCall.op = "click"
  /\ outA.kind = "reward"
  /\ outA = outR

IsError(out) == out.kind \in {"IndexError", "ValueError"}

\* C9: a call that raises produces no output and leaves the environment, its
\* generator included, as it was before the call; draw_reward on an invalid
\* arm or a wrong-length context raises before it draws.
C9_NoPartialFailure ==
  /\ IsError(outA)
       => (envA = pre /\ outA.x = <<>> /\ outA.p = -1 /\ outA.r = -1)
  /\ (lastCall.op = "click" /\ outA.kind # "reward")
       => (IsError(outA) /\ envA.rng = pre.rng)

\* draw_reward raised on a wrong-length context after a sample_context call
C9_Witness ==
  /\ lastCall.op = "click"
  /\ outA.kind = "ValueError"
  /\ ncalls >= 2
  /\ envA.rng = pre.rng
  /\ envA.rng.pos > 0

Constructed(env) ==
  /\ env.d = 6
  /\ env.k = 4
  /\ env.theta = << << 16,  2,  1,  2,  7,  4 >>,
                    <<  1, 18,  1,  7,  2, -1 >>,
                    <<  0,  1, 19, -1, -2, -2 >>,
                    <<  3,  2,  2, 10,  8,  0 >> >>

\* C10 as claimed: construction succeeds for every integer seed, negative
\* ones included, and with the seed omitted; it yields d = 6, k = 4 and the
\* fixed coefficient matrix.
C10_AnySeedConstructs ==
  phase # "new" => (phase = "ready" /\ initErr = "" /\ Constructed(envA))

\* C10 as amended: construction succeeds for every non-negative integer seed
\* and with the seed omitted, in which case seed 0 is used; it yields d = 6,
\* k = 4 and the fixed coefficient matrix.  A negative seed raises ValueError
\* and no environment is built.
C10_NonNegativeSeedConstructs ==
  phase # "new" =>
    /\ (seedArg.absent \/ seedArg.v >= 0)
         => (phase = "ready" /\ initErr = "" /\ Constructed(envA))
    /\ seedArg.absent => envA.rng.stream = 0
    /\ (~seedArg.absent /\ phase = "ready" /\ ncalls = 0)
         => envA.rng = FreshGenerator(seedArg.v)
    /\ (~seedArg.absent /\ seedArg.v < 0)
         => (phase = "failed" /\ initErr = "ValueError" /\ envA = NoEnv)

\* an environment built with the seed omitted
C10_Witness ==
  /\ phase = "ready"
  /\ seedArg.absent
  /\ ncalls = 0
  /\ Constructed(envA)
  /\ envA.rng = FreshGenerator(0)

====
